---- MODULE Spec2Model ----
(***************************************************************************)
(* CoordinateConversions: the TMS Global Mercator and Global Geodetic      *)
(* profiles (packages Mercator and Geodetic).                              *)
(*                                                                         *)
(* Every coordinate of the program is a Go float64.  The model computes    *)
(* with IEEE-754 binary64 values bit for bit: a finite value is            *)
(* (-1)^sgn * man * 2^exp with man a 53-bit natural number (held as limbs  *)
(* of 15 bits, least significant first, so that every intermediate        *)
(* product fits a 32-bit integer), and +, -, *, / round to nearest, ties to even, as    *)
(* the hardware does.  Tile indices (int64) and zoom levels stay within    *)
(* 31 bits in every input the model draws and are plain integers; the one  *)
(* uint value whose width matters (the map size of PixelsToRaster) is      *)
(* computed modulo 2^64.                                                   *)
(*                                                                         *)
(* LatLonToMeters, MetersToLatLon and TileLatLonBounds need log, tan, atan *)
(* and exp; no property checked here is about them and they are left out.  *)
(***************************************************************************)
EXTENDS Integers, Sequences, FiniteSets, TLC

(***************************************************************************)
(* Natural numbers of any size: a sequence of limbs, least significant     *)
(* first, without leading (high) zero limbs, so that equal numbers are     *)
(* equal sequences.                                                        *)
(***************************************************************************)
LimbBits == 15
Base == 2^15

RECURSIVE Pow2Int(_)
Pow2Int(n) == IF n = 0 THEN 1 ELSE 2 * Pow2Int(n - 1)

P2 == [i \in 0..30 |-> Pow2Int(i)]

Max(a, b) == IF a >= b THEN a ELSE b
Min(a, b) == IF a <= b THEN a ELSE b

RECURSIVE BTrim(_)
BTrim(a) ==
  IF a = <<>> THEN a
  ELSE IF a[Len(a)] = 0 THEN BTrim(SubSeq(a, 1, Len(a) - 1))
  ELSE a

BFromNat(n) == BTrim(<<n % Base, (n \div Base) % Base, n \div (Base * Base)>>)

\* Defined for numbers below 2^31 only.
BToNat(a) ==
  IF a = <<>> THEN 0
  ELSE IF Len(a) = 1 THEN a[1]
  ELSE IF Len(a) = 2 THEN a[1] + Base * a[2]
  ELSE a[1] + Base * a[2] + Base * Base * a[3]

BFitsInt(a) == Len(a) <= 2 \/ (Len(a) = 3 /\ a[3] <= 1)

Limb(a, i) == IF i <= Len(a) THEN a[i] ELSE 0

RECURSIVE BCmpFrom(_, _, _)
BCmpFrom(a, b, i) ==
  IF i = 0 THEN 0
  ELSE IF a[i] > b[i] THEN 1
  ELSE IF a[i] < b[i] THEN -1
  ELSE BCmpFrom(a, b, i - 1)

BCmp(a, b) ==
  IF Len(a) > Len(b) THEN 1
  ELSE IF Len(a) < Len(b) THEN -1
  ELSE BCmpFrom(a, b, Len(a))

RECURSIVE BAddFrom(_, _, _, _, _)
BAddFrom(a, b, i, c, n) ==
  IF i > n THEN (IF c = 0 THEN <<>> ELSE <<c>>)
  ELSE LET s == Limb(a, i) + Limb(b, i) + c
       IN  <<s % Base>> \o BAddFrom(a, b, i + 1, s \div Base, n)

BAdd(a, b) == BAddFrom(a, b, 1, 0, Max(Len(a), Len(b)))

\* a - b for a >= b.
RECURSIVE BSubFrom(_, _, _, _)
BSubFrom(a, b, i, c) ==
  IF i > Len(a) THEN <<>>
  ELSE LET d == a[i] - Limb(b, i) - c
       IN  IF d < 0 THEN <<d + Base>> \o BSubFrom(a, b, i + 1, 1)
           ELSE <<d>> \o BSubFrom(a, b, i + 1, 0)

BSub(a, b) == BTrim(BSubFrom(a, b, 1, 0))

RECURSIVE BMulSmallFrom(_, _, _, _)
BMulSmallFrom(a, k, i, c) ==
  IF i > Len(a) THEN (IF c = 0 THEN <<>> ELSE <<c>>)
  ELSE LET s == a[i] * k + c
       IN  <<s % Base>> \o BMulSmallFrom(a, k, i + 1, s \div Base)

\* a * k for 0 <= k <= Base.
BMulSmall(a, k) == IF k = 0 THEN <<>> ELSE BMulSmallFrom(a, k, 1, 0)

BShiftLimbs(a, n) == IF a = <<>> \/ n = 0 THEN a ELSE [i \in 1..n |-> 0] \o a

RECURSIVE BMulFrom(_, _, _)
BMulFrom(a, b, j) ==
  IF j > Len(b) THEN <<>>
  ELSE BAdd(BShiftLimbs(BMulSmall(a, b[j]), j - 1), BMulFrom(a, b, j + 1))

BMul(a, b) == BMulFrom(a, b, 1)

\* a * 2^n and floor(a / 2^n).
BShl(a, n) == BShiftLimbs(BMulSmall(a, P2[n % LimbBits]), n \div LimbBits)

BShr(a, n) ==
  LET d == n \div LimbBits
      r == n % LimbBits
      m == Len(a) - d
  IN  IF m <= 0 THEN <<>>
      ELSE BTrim([i \in 1..m |->
                    (a[i + d] \div P2[r]) + (Limb(a, i + d + 1) % P2[r]) * P2[LimbBits - r]])

\* Whether one of the n lowest bits of a is set; bit i (from 0) of a.
BLowNonZero(a, n) ==
  LET d == n \div LimbBits
      r == n % LimbBits
  IN  \/ \E i \in 1..Min(d, Len(a)) : a[i] # 0
      \/ Limb(a, d + 1) % P2[r] # 0

BBit(a, i) == (Limb(a, (i \div LimbBits) + 1) \div P2[i % LimbBits]) % 2

RECURSIVE BitLenInt(_)
BitLenInt(x) == IF x = 0 THEN 0 ELSE 1 + BitLenInt(x \div 2)

BBitLen(a) == IF a = <<>> THEN 0 ELSE LimbBits * (Len(a) - 1) + BitLenInt(a[Len(a)])

BIsOdd(a) == a # <<>> /\ a[1] % 2 = 1

\* a mod 2^64: the width of Go's uint on the 64-bit targets.
UintBits == 64
BModUint(a) ==
  LET full == UintBits \div LimbBits
      r    == UintBits % LimbBits
  IN  BTrim([i \in 1..Min(Len(a), full + 1) |->
               IF i = full + 1 THEN a[i] % P2[r] ELSE a[i]])

(***************************************************************************)
(* float64.  A value is a record [cls, sgn, man, exp]: cls "fin" is the    *)
(* number (-1)^sgn * man * 2^exp, in the canonical form of binary64:       *)
(* 2^52 <= man < 2^53 and MinExp <= exp <= MaxExp (normal), or man < 2^52  *)
(* and exp = MinExp (subnormal), or zero (man = <<>>, exp = 0, sgn = 0:    *)
(* the sign of a zero decides nothing in this program).  cls "inf" is an   *)
(* infinity of sign sgn and cls "nan" is not-a-number.                     *)
(***************************************************************************)
MantBits == 53
MinExp == -1074
MaxExp == 971

FZero == [cls |-> "fin", sgn |-> 0, man |-> <<>>, exp |-> 0]
FInf(s) == [cls |-> "inf", sgn |-> s, man |-> <<>>, exp |-> 0]
FNaN == [cls |-> "nan", sgn |-> 0, man |-> <<>>, exp |-> 0]

IsZero(a) == a.cls = "fin" /\ a.man = <<>>

\* The float64 nearest to (-1)^s * (M + t) * 2^E, 0 <= t < 1 with t > 0 iff
\* sticky, ties to even.  M has at least MantBits + 2 bits whenever sticky.
\* (The steps are operators of their own, each used once, so that a value
\* computed once is named once.)
FPack(s, m, e) ==
  IF m = <<>> THEN FZero
  ELSE IF e > MaxExp THEN FInf(s)
  ELSE [cls |-> "fin", sgn |-> s, man |-> m, exp |-> e]

\* A mantissa that rounding carried to 2^MantBits is halved.
FCarry(s, q, e) ==
  IF BBitLen(q) > MantBits THEN FPack(s, BShr(q, 1), e + 1) ELSE FPack(s, q, e)

\* q is M without its sh lowest bits; half is the highest of these and rest
\* tells whether anything lies below it.
FRoundTie(s, q, e, half, rest) ==
  FCarry(s, IF half /\ (rest \/ BIsOdd(q)) THEN BAdd(q, <<1>>) ELSE q, e)

FRoundShift(s, M, E, sticky, sh) ==
  IF sh <= 0 THEN FPack(s, BShl(M, -sh), E + sh)
  ELSE FRoundTie(s, BShr(M, sh), E + sh, BBit(M, sh - 1) = 1,
                 sticky \/ BLowNonZero(M, sh - 1))

FRound(s, M, E, sticky) ==
  IF M = <<>> THEN FZero
  ELSE FRoundShift(s, M, E, sticky, Max(BBitLen(M) - MantBits, MinExp - E))

\* float64(n) of an integer n, and n * 2^e, for |n| < 2^31.
FInt(n) == FRound(IF n < 0 THEN 1 ELSE 0, BFromNat(IF n < 0 THEN -n ELSE n), 0, FALSE)
FDyadic(n, e) == FRound(IF n < 0 THEN 1 ELSE 0, BFromNat(IF n < 0 THEN -n ELSE n), e, FALSE)

\* The float64 with the 53-bit mantissa hi * 2^30 + lo and exponent e.
FBits(s, hi, lo, e) ==
  FRound(s, BTrim(<<lo % Base, lo \div Base, hi % Base, hi \div Base>>), e, FALSE)

FNeg(a) == IF a.cls = "nan" \/ IsZero(a) THEN a ELSE [a EXCEPT !.sgn = 1 - a.sgn]

\* Order of magnitudes of finite values: -1, 0, 1.
FMagCmp(a, b) ==
  IF a.man = <<>> THEN (IF b.man = <<>> THEN 0 ELSE -1)
  ELSE IF b.man = <<>> THEN 1
  ELSE IF a.exp > b.exp THEN 1
  ELSE IF a.exp < b.exp THEN -1
  ELSE BCmp(a.man, b.man)

\* Order of two values that are not NaN: -1, 0, 1.
FCmp(a, b) ==
  IF a.cls = "inf" \/ b.cls = "inf"
  THEN LET va == IF a.cls = "inf" THEN 1 - 2 * a.sgn ELSE 0
           vb == IF b.cls = "inf" THEN 1 - 2 * b.sgn ELSE 0
       IN  IF va > vb THEN 1 ELSE IF va < vb THEN -1 ELSE 0
  ELSE IF a.sgn # b.sgn THEN (IF a.sgn = 1 THEN -1 ELSE 1)
  ELSE IF a.sgn = 0 THEN FMagCmp(a, b) ELSE FMagCmp(b, a)

\* Go's <, <=, >, == on float64: false as soon as an operand is NaN.
FLt(a, b) == a.cls # "nan" /\ b.cls # "nan" /\ FCmp(a, b) < 0
FLe(a, b) == a.cls # "nan" /\ b.cls # "nan" /\ FCmp(a, b) <= 0
FGt(a, b) == FLt(b, a)
FEq(a, b) == a.cls # "nan" /\ b.cls # "nan" /\ FCmp(a, b) = 0

\* a + b.
FAddAligned(sa, A, sb, B, e, c) ==
  IF sa = sb THEN FRound(sa, BAdd(A, B), e, FALSE)
  ELSE FRound(IF c >= 0 THEN sa ELSE sb,
              IF c >= 0 THEN BSub(A, B) ELSE BSub(B, A), e, FALSE)

FAddShifted(sa, A, sb, B, e) == FAddAligned(sa, A, sb, B, e, BCmp(A, B))

FAddAt(a, b, e) ==
  FAddShifted(a.sgn, BShl(a.man, a.exp - e), b.sgn, BShl(b.man, b.exp - e), e)

FAdd(a, b) ==
  IF a.cls = "nan" \/ b.cls = "nan" THEN FNaN
  ELSE IF a.cls = "inf"
       THEN (IF b.cls = "inf" /\ b.sgn # a.sgn THEN FNaN ELSE a)
  ELSE IF b.cls = "inf" THEN b
  ELSE IF a.man = <<>> THEN b
  ELSE IF b.man = <<>> THEN a
  \* The smaller operand is below a quarter of the last place of the larger.
  ELSE IF a.exp - b.exp > UintBits THEN a
  ELSE IF b.exp - a.exp > UintBits THEN b
  ELSE FAddAt(a, b, Min(a.exp, b.exp))

FSub(a, b) == FAdd(a, FNeg(b))

\* a * b.
FMul(a, b) ==
  IF a.cls = "nan" \/ b.cls = "nan" THEN FNaN
  ELSE IF a.cls = "inf" \/ b.cls = "inf"
       THEN (IF IsZero(a) \/ IsZero(b) THEN FNaN ELSE FInf((a.sgn + b.sgn) % 2))
  ELSE FRound((a.sgn + b.sgn) % 2, BMul(a.man, b.man), a.exp + b.exp, FALSE)

\* k steps of binary long division: the remainder R < B is doubled and B is
\* taken off when it fits.  <<the k quotient bits as a number, remainder>>.
RECURSIVE DivSteps(_, _, _, _)
DivStep(R2, B, k, q) ==
  IF BCmp(R2, B) >= 0 THEN DivSteps(BSub(R2, B), B, k - 1, 2 * q + 1)
  ELSE DivSteps(R2, B, k - 1, 2 * q)

DivSteps(R, B, k, q) ==
  IF k = 0 THEN <<q, R>> ELSE DivStep(BMulSmall(R, 2), B, k, q)

\* a / b.  A and B are the mantissas brought to MantBits bits, so that A / B
\* lies in (1/2, 2): the leading bit of the quotient, then four limbs of it,
\* the most significant first; what is left of A makes the result inexact.
RECURSIVE FDivLimbs(_, _, _, _)
FDivNext(d, B, k, Q) == FDivLimbs(d[2], B, k - 1, <<d[1]>> \o Q)

FDivLimbs(R, B, k, Q) ==
  IF k = 0 THEN <<Q, R>>
  ELSE FDivNext(DivSteps(R, B, LimbBits, 0), B, k, Q)

FDivRound(s, qr, E) == FRound(s, BTrim(qr[1]), E, qr[2] # <<>>)

FDivMant(s, A, B, E, ge) ==
  FDivRound(s, FDivLimbs(IF ge THEN BSub(A, B) ELSE A, B, 4,
                         <<IF ge THEN 1 ELSE 0>>), E)

FDivNorm(s, A, B, E) == FDivMant(s, A, B, E, BCmp(A, B) >= 0)

FDivBits(a, b, la, lb) ==
  FDivNorm((a.sgn + b.sgn) % 2, BShl(a.man, MantBits - la), BShl(b.man, MantBits - lb),
           (a.exp - (MantBits - la)) - (b.exp - (MantBits - lb)) - 4 * LimbBits)

FDiv(a, b) ==
  IF a.cls = "nan" \/ b.cls = "nan" THEN FNaN
  ELSE IF a.cls = "inf"
       THEN (IF b.cls = "inf" THEN FNaN ELSE FInf((a.sgn + b.sgn) % 2))
  ELSE IF b.cls = "inf" THEN FZero
  ELSE IF b.man = <<>> THEN (IF a.man = <<>> THEN FNaN ELSE FInf(a.sgn))
  ELSE IF a.man = <<>> THEN FZero
  ELSE FDivBits(a, b, BBitLen(a.man), BBitLen(b.man))

\* math.Ceil, and the integer a float64 truncates to (its magnitude).
FTruncMag(a) == IF a.exp >= 0 THEN BShl(a.man, a.exp) ELSE BShr(a.man, -a.exp)
FHasFrac(a) == a.exp < 0 /\ BLowNonZero(a.man, -a.exp)

FCeil(a) ==
  IF a.cls # "fin" \/ a.exp >= 0 THEN a
  ELSE FRound(a.sgn,
              IF a.sgn = 0 /\ FHasFrac(a) THEN BAdd(FTruncMag(a), <<1>>)
              ELSE FTruncMag(a),
              0, FALSE)

\* math.Pow(2, float64(n)) for an integer n: exactly 2^n (an infinity from
\* 2^1024 on, zero below 2^-1075).
FPow2(n) == FRound(0, <<1>>, n, FALSE)

\* int64(a): truncation toward zero.  Defined for |a| < 2^31, which holds
\* of every conversion the model performs.
FToInt(a) ==
  LET m == BToNat(FTruncMag(a))
  IN  IF a.sgn = 1 THEN -m ELSE m

\* uint(a) of a float64 a >= 0 below 2^64, as a number of limbs.
FToUint(a) == IF a.man = <<>> THEN <<>> ELSE FTruncMag(a)

\* float64(u) of an unsigned integer.
FFromUint(u) == FRound(0, u, 0, FALSE)

\* The neighbours of a finite, normal a among the float64 values, away from
\* zero and toward zero.
FNextUp(a) == FRound(a.sgn, BAdd(BMulSmall(a.man, 2), <<1>>), a.exp - 1, TRUE)
FNextDown(a) ==
  IF BBitLen(BSub(a.man, <<1>>)) < MantBits
  THEN [a EXCEPT !.man = BSub(BMulSmall(a.man, 2), <<1>>), !.exp = a.exp - 1]
  ELSE [a EXCEPT !.man = BSub(a.man, <<1>>)]

(***************************************************************************)
(* Package Mercator (GlobalMercator.go).                                   *)
(***************************************************************************)

\* The constants 2 * math.Pi * 6378137 and 2 * math.Pi * 6378137 / 2.0: Go
\* evaluates a constant expression exactly and rounds it once to float64,
\* which gives 0x1.31bf8457c1093p+25 and 0x1.31bf8457c1093p+24.
EarthCircumference == FBits(0, 5009377, 92016787, -27)
HalfEarthCircumference == FBits(0, 5009377, 92016787, -28)

NewGlobalMercator(tileSize) ==
  [kind              |-> "Mercator",
   tileSize          |-> tileSize,
   initialResolution |-> FDiv(EarthCircumference, tileSize),
   originShift       |-> HalfEarthCircumference]

\* Variant: the arguments of math.Pow exchanged.
Mercator_Resolution_PowSwapped(this, zoom) ==
  FDiv(this.initialResolution, FInt(zoom * zoom))

Mercator_Resolution(this, zoom) == FDiv(this.initialResolution, FPow2(zoom))

Mercator_PixelsToMeters(this, px, py, zoom) ==
  LET res == Mercator_Resolution(this, zoom)
      mx  == FSub(FMul(px, res), this.originShift)
      my  == FSub(FMul(py, res), this.originShift)
  IN  <<mx, my>>

\* Variant: the origin is not moved to the corner of the world.
Mercator_MetersToPixels_NoShift(this, mx, my, zoom) ==
  LET res == Mercator_Resolution(this, zoom)
  IN  <<FDiv(mx, res), FDiv(my, res)>>

Mercator_MetersToPixels(this, mx, my, zoom) ==
  LET res == Mercator_Resolution(this, zoom)
      px  == FDiv(FAdd(mx, this.originShift), res)
      py  == FDiv(FAdd(my, this.originShift), res)
  IN  <<px, py>>

\* Variant: the ceiling without the decrement.
Mercator_PixelsToTile_NoDecrement(this, px, py) ==
  LET tx == FToInt(FCeil(FDiv(px, this.tileSize)))
      ty == FToInt(FCeil(FDiv(py, this.tileSize)))
  IN  <<tx, ty>>

Mercator_PixelsToTile(this, px, py) ==
  LET tx == FToInt(FSub(FCeil(FDiv(px, this.tileSize)), FInt(1)))
      ty == FToInt(FSub(FCeil(FDiv(py, this.tileSize)), FInt(1)))
  IN  <<tx, ty>>

\* uint(this.tileSize) << uint(zoom): a shift by the width of uint or more
\* leaves 0, and the bits shifted past the width are lost.
Mercator_PixelsToRaster(this, px, py, zoom) ==
  LET mapSize == IF zoom >= UintBits THEN <<>>
                 ELSE BModUint(BShl(FToUint(this.tileSize), zoom))
  IN  <<px, FSub(FFromUint(mapSize), py)>>

Mercator_MetersToTile(this, mx, my, zoom) ==
  LET p == Mercator_MetersToPixels(this, mx, my, zoom)
  IN  Mercator_PixelsToTile(this, p[1], p[2])

\* Variant: both corners taken at (tx, ty).
Mercator_TileBounds_SameCorner(this, tx, ty, zoom) ==
  LET lo == Mercator_PixelsToMeters(this, FMul(tx, this.tileSize),
                                    FMul(ty, this.tileSize), zoom)
  IN  <<lo[1], lo[2], lo[1], lo[2]>>

Mercator_TileBounds(this, tx, ty, zoom) ==
  LET lo == Mercator_PixelsToMeters(this, FMul(tx, this.tileSize),
                                    FMul(ty, this.tileSize), zoom)
      hi == Mercator_PixelsToMeters(this, FMul(FAdd(tx, FInt(1)), this.tileSize),
                                    FMul(FAdd(ty, FInt(1)), this.tileSize), zoom)
  IN  <<lo[1], lo[2], hi[1], hi[2]>>

\* The loop of ZoomForPixelSize from its index i on.  The values it returns:
\* <<v>> at a return statement, <<>> when the loop ends and the body of the
\* function is left without one.
ZoomScanEnd == 30

RECURSIVE ZoomScan(_, _, _)
ZoomScan(this, pixelSize, i) ==
  IF i >= ZoomScanEnd THEN <<>>
  ELSE IF FGt(pixelSize, Mercator_Resolution(this, i))
       THEN (IF i # 0 THEN <<0>> ELSE <<i - 1>>)
       ELSE ZoomScan(this, pixelSize, i + 1)

\* Variant: i - 1 at the first crossing, 0 when that is below 0.
RECURSIVE ZoomScan_Intended(_, _, _)
ZoomScan_Intended(this, pixelSize, i) ==
  IF i >= ZoomScanEnd THEN <<>>
  ELSE IF FGt(pixelSize, Mercator_Resolution(this, i))
       THEN (IF i # 0 THEN <<i - 1>> ELSE <<0>>)
       ELSE ZoomScan_Intended(this, pixelSize, i + 1)

Mercator_ZoomForPixelSize_Intended(this, pixelSize) ==
  ZoomScan_Intended(this, pixelSize, 0)

Mercator_ZoomForPixelSize(this, pixelSize) == ZoomScan(this, pixelSize, 0)

(***************************************************************************)
(* Package Geodetic.                                                       *)
(***************************************************************************)

NewGlobalGeodetic(tileSize) == [kind |-> "Geodetic", tileSize |-> FInt(tileSize)]

\* Variant: longitude on the axis of 360 degrees, latitude on that of 180.
Geodetic_LatLonToPixels_Swapped(this, lat, lon, zoom) ==
  LET res == FDiv(FDiv(FInt(180), FInt(256)), FPow2(zoom))
  IN  <<FDiv(FAdd(FInt(180), lon), res), FDiv(FAdd(FInt(90), lat), res)>>

Geodetic_LatLonToPixels(this, lat, lon, zoom) ==
  LET res == FDiv(FDiv(FInt(180), FInt(256)), FPow2(zoom))
      px  == FDiv(FAdd(FInt(180), lat), res)
      py  == FDiv(FAdd(FInt(90), lon), res)
  IN  <<px, py>>

\* Variant: the floor instead of the ceiling less one.
Geodetic_PixelsToTile_Floor(this, px, py) ==
  LET tx == -FToInt(FCeil(FNeg(FDiv(px, this.tileSize))))
      ty == -FToInt(FCeil(FNeg(FDiv(py, this.tileSize))))
  IN  <<tx, ty>>

Geodetic_PixelsToTile(this, px, py) ==
  LET tx == FToInt(FSub(FCeil(FDiv(px, this.tileSize)), FInt(1)))
      ty == FToInt(FSub(FCeil(FDiv(py, this.tileSize)), FInt(1)))
  IN  <<tx, ty>>

Geodetic_Resolution(this, zoom) == FDiv(FDiv(FInt(180), FInt(256)), FPow2(zoom))

\* Variant: the tile's pixel corners taken with the configured tile size, as
\* the Mercator profile does, at the resolution of 256-pixel tiles.
Geodetic_TileBounds_TileSize(this, tx, ty, zoom) ==
  LET res == FDiv(FDiv(FInt(180), FInt(256)), FPow2(zoom))
  IN  <<FSub(FMul(FMul(tx, this.tileSize), res), FInt(180)),
        FSub(FMul(FMul(ty, this.tileSize), res), FInt(90)),
        FSub(FMul(FMul(FAdd(tx, FInt(1)), this.tileSize), res), FInt(180)),
        FSub(FMul(FMul(FAdd(ty, FInt(1)), this.tileSize), res), FInt(90))>>

Geodetic_TileBounds(this, tx, ty, zoom) ==
  LET res == FDiv(FDiv(FInt(180), FInt(256)), FPow2(zoom))
  IN  <<FSub(FMul(FMul(tx, FInt(256)), res), FInt(180)),
        FSub(FMul(FMul(ty, FInt(256)), res), FInt(90)),
        FSub(FMul(FMul(FAdd(tx, FInt(1)), FInt(256)), res), FInt(180)),
        FSub(FMul(FMul(FAdd(ty, FInt(1)), FInt(256)), res), FInt(90))>>

(***************************************************************************)
(* The program as a state machine.  A profile is constructed (Init) and    *)
(* its methods are called one at a time: a call leaves the method, its     *)
(* arguments and the values it returned in op, args and ret, and Return    *)
(* hands control back to the caller.  No method changes the profile.       *)
(***************************************************************************)
VARIABLES this, op, args, ret

vars == <<this, op, args, ret>>

\* Bounds of the inputs the calls draw.
MaxZoom == 3
MaxTile == 3
MeterGrid == 8

\* The zoom levels the repository's test walks through: for i := 0; i < 21.
TestedZoomEnd == 21

\* Tile sizes: the usual 256, one that is no power of two, and 2.5 and 100.7
\* (the Mercator profile takes any float64; the Geodetic one an int64).  The
\* multiples of the first three are float64 values; 3 * 100.7 is not.
MercatorTileSizes ==
  {FInt(256), FInt(27), FDyadic(5, -1), FBits(0, 6599475, 214748365, -46)}
GeodeticTileSizes == {256, 100}

\* Zoom levels: the first ones and the deepest one ZoomForPixelSize looks at.
Zooms == (0..MaxZoom) \cup {ZoomScanEnd - 1}
TestedZooms == 0..(TestedZoomEnd - 1)
\* Zoom levels beyond the pyramid: the shifts at which 256 << zoom leaves 64
\* bits, where a tile is also narrower than the float64 spacing at originShift.
DeepZooms == {UintBits - 8, UintBits}
RasterZooms == Zooms \cup DeepZooms

\* Pixel coordinates around the tiles 0..MaxTile of a profile: every quarter
\* of a tile (the boundaries among them), the float64 neighbours of every
\* tile boundary, a pixel coordinate just above 0 and the least positive
\* float64.
PixelCoords(tileSize) ==
  {FMul(FInt(j), FDiv(tileSize, FInt(4))) : j \in 0..(4 * (MaxTile + 1))}
  \cup {FNextUp(FMul(FInt(k), tileSize)) : k \in 1..(MaxTile + 1)}
  \cup {FNextDown(FMul(FInt(k), tileSize)) : k \in 1..(MaxTile + 1)}
  \cup {FDyadic(1, -40), FDyadic(1, MinExp)}

FewPixelCoords(tileSize) == {FMul(FInt(j), FDiv(tileSize, FInt(2))) : j \in 0..3}

PixelPairs(tileSize) ==
  (PixelCoords(tileSize) \X FewPixelCoords(tileSize))
  \cup (FewPixelCoords(tileSize) \X PixelCoords(tileSize))

\* Projected coordinates: the world [-originShift, originShift] in steps of
\* originShift / MeterGrid, one metre, and 2^-30 m.
MeterCoords(originShift) ==
  {FMul(FInt(k), FDiv(originShift, FInt(MeterGrid))) : k \in (-MeterGrid)..MeterGrid}
  \cup {FInt(1), FDyadic(1, -30)}

FewMeterCoords(originShift) ==
  {FDiv(originShift, FInt(2)), FNeg(FDiv(originShift, FInt(4)))}

\* Tile indices: the first ones and the last one of the deepest zoom.
TileIndices == {FInt(k) : k \in 0..MaxTile} \cup {FInt(P2[ZoomScanEnd - 1] - 1)}

\* Pixel sizes: above every resolution, ordinary ones, resolutions of the
\* pyramid themselves, and one below Resolution(29).
PixelSizes(p) ==
  {FDyadic(1, 27), FInt(1000), FInt(1), FDyadic(1, -20),
   Mercator_Resolution(p, 0), Mercator_Resolution(p, MaxZoom),
   FNextUp(Mercator_Resolution(p, MaxZoom)),
   Mercator_Resolution(p, ZoomScanEnd - 1),
   FNextUp(Mercator_Resolution(p, ZoomScanEnd - 1))}

\* 51.5287718, -0.2416819: the point of TestLatLonToPixels.
TestLat == FBits(0, 6753979, 190449158, -47)
TestLon == FBits(1, 8109498, 944013196, -55)

Latitudes == {FInt(45 * k - 180) : k \in 0..8} \cup {TestLat}
Longitudes == {FInt(45 * k - 90) : k \in 0..4} \cup {TestLon}

Init ==
  /\ this \in {NewGlobalMercator(t) : t \in MercatorTileSizes}
              \cup {NewGlobalGeodetic(t) : t \in GeodeticTileSizes}
  /\ op = "idle"
  /\ args = <<>>
  /\ ret = <<>>

CallMercatorResolution ==
  /\ op = "idle" /\ this.kind = "Mercator"
  /\ \E zoom \in TestedZooms :
       /\ op' = "Resolution"
       /\ args' = <<zoom>>
       /\ ret' = <<Mercator_Resolution(this, zoom)>>
  /\ UNCHANGED this

CallMercatorPixelsToMeters ==
  /\ op = "idle" /\ this.kind = "Mercator"
  /\ \E px \in FewPixelCoords(this.tileSize), py \in FewPixelCoords(this.tileSize),
        zoom \in Zooms :
       /\ op' = "PixelsToMeters"
       /\ args' = <<px, py, zoom>>
       /\ ret' = Mercator_PixelsToMeters(this, px, py, zoom)
  /\ UNCHANGED this

CallMercatorMetersToPixels ==
  /\ op = "idle" /\ this.kind = "Mercator"
  /\ \E mx \in FewMeterCoords(this.originShift), my \in FewMeterCoords(this.originShift),
        zoom \in Zooms :
       /\ op' = "MetersToPixels"
       /\ args' = <<mx, my, zoom>>
       /\ ret' = Mercator_MetersToPixels(this, mx, my, zoom)
  /\ UNCHANGED this

CallMercatorPixelsToTile ==
  /\ op = "idle" /\ this.kind = "Mercator"
  /\ \E p \in PixelPairs(this.tileSize) :
       /\ op' = "PixelsToTile"
       /\ args' = p
       /\ ret' = Mercator_PixelsToTile(this, p[1], p[2])
  /\ UNCHANGED this

CallMercatorPixelsToRaster ==
  /\ op = "idle" /\ this.kind = "Mercator"
  /\ \E px \in FewPixelCoords(this.tileSize), py \in FewPixelCoords(this.tileSize),
        zoom \in RasterZooms :
       /\ op' = "PixelsToRaster"
       /\ args' = <<px, py, zoom>>
       /\ ret' = Mercator_PixelsToRaster(this, px, py, zoom)
  /\ UNCHANGED this

CallMercatorMetersToTile ==
  /\ op = "idle" /\ this.kind = "Mercator"
  /\ \E mx \in MeterCoords(this.originShift), my \in FewMeterCoords(this.originShift),
        zoom \in Zooms :
       /\ op' = "MetersToTile"
       /\ args' = <<mx, my, zoom>>
       /\ ret' = Mercator_MetersToTile(this, mx, my, zoom)
  /\ UNCHANGED this

CallMercatorTileBounds ==
  /\ op = "idle" /\ this.kind = "Mercator"
  /\ \E tx \in TileIndices, ty \in TileIndices, zoom \in RasterZooms :
       /\ op' = "TileBounds"
       /\ args' = <<tx, ty, zoom>>
       /\ ret' = Mercator_TileBounds(this, tx, ty, zoom)
  /\ UNCHANGED this

CallMercatorZoomForPixelSize ==
  /\ op = "idle" /\ this.kind = "Mercator"
  /\ \E pixelSize \in PixelSizes(this) :
       /\ op' = "ZoomForPixelSize"
       /\ args' = <<pixelSize>>
       /\ ret' = Mercator_ZoomForPixelSize(this, pixelSize)
  /\ UNCHANGED this

CallGeodeticLatLonToPixels ==
  /\ op = "idle" /\ this.kind = "Geodetic"
  /\ \E lat \in Latitudes, lon \in Longitudes, zoom \in Zooms :
       /\ op' = "LatLonToPixels"
       /\ args' = <<lat, lon, zoom>>
       /\ ret' = Geodetic_LatLonToPixels(this, lat, lon, zoom)
  /\ UNCHANGED this

CallGeodeticPixelsToTile ==
  /\ op = "idle" /\ this.kind = "Geodetic"
  /\ \E p \in PixelPairs(this.tileSize) :
       /\ op' = "PixelsToTile"
       /\ args' = p
       /\ ret' = Geodetic_PixelsToTile(this, p[1], p[2])
  /\ UNCHANGED this

CallGeodeticResolution ==
  /\ op = "idle" /\ this.kind = "Geodetic"
  /\ \E zoom \in TestedZooms :
       /\ op' = "Resolution"
       /\ args' = <<zoom>>
       /\ ret' = <<Geodetic_Resolution(this, zoom)>>
  /\ UNCHANGED this

CallGeodeticTileBounds ==
  /\ op = "idle" /\ this.kind = "Geodetic"
  /\ \E tx \in TileIndices, ty \in TileIndices, zoom \in Zooms :
       /\ op' = "TileBounds"
       /\ args' = <<tx, ty, zoom>>
       /\ ret' = Geodetic_TileBounds(this, tx, ty, zoom)
  /\ UNCHANGED this

Return ==
  /\ op # "idle"
  /\ op' = "idle"
  /\ args' = <<>>
  /\ ret' = <<>>
  /\ UNCHANGED this

Next ==
  \/ CallMercatorResolution
  \/ CallMercatorPixelsToMeters
  \/ CallMercatorMetersToPixels
  \/ CallMercatorPixelsToTile
  \/ CallMercatorPixelsToRaster
  \/ CallMercatorMetersToTile
  \/ CallMercatorTileBounds
  \/ CallMercatorZoomForPixelSize
  \/ CallGeodeticLatLonToPixels
  \/ CallGeodeticPixelsToTile
  \/ CallGeodeticResolution
  \/ CallGeodeticTileBounds
  \/ Return

Spec == Init /\ [][Next]_vars

(***************************************************************************)
(* Properties.                                                             *)
(***************************************************************************)
FGe(a, b) == FLe(b, a)
FAbs(a) == IF a.cls = "nan" THEN a ELSE [a EXCEPT !.sgn = 0]

\* The float64 nearest to the lower boundary t * tileSize of tile t.
TileEdge(t, tileSize) == FMul(FInt(t), tileSize)

\* The order of the real number t * tileSize and the float64 p, compared
\* without rounding: -1, 0, 1 (t >= 0, tileSize > 0, p finite).
EdgeCmp(t, tileSize, p) ==
  IF p.sgn = 1 /\ ~IsZero(p) THEN 1
  ELSE BCmp(BShl(BMul(tileSize.man, BFromNat(t)),
                 tileSize.exp - Min(tileSize.exp, p.exp)),
            BShl(p.man, p.exp - Min(tileSize.exp, p.exp)))

\* t * tileSize < p < (t + 1) * tileSize.
StrictlyInside(p, t, tileSize) ==
  EdgeCmp(t, tileSize, p) < 0 /\ EdgeCmp(t + 1, tileSize, p) > 0

\* The boundary t * tileSize is a float64 value: the product is not rounded.
EdgeIsFloat(t, tileSize) == EdgeCmp(t, tileSize, TileEdge(t, tileSize)) = 0

\* Both boundaries of tile t are float64 values, as they are for every
\* integer tile size while (t + 1) * tileSize < 2^53.
TileIsExact(t, tileSize) == EdgeIsFloat(t, tileSize) /\ EdgeIsFloat(t + 1, tileSize)

\* The quotient p / tileSize is not rounded to 0.
NoUnderflow(p, tileSize) == ~IsZero(FDiv(p, tileSize))

\* The tiles whose pixel range the pixel coordinates of the model meet.
Tiles == 0..(MaxTile + 1)

\* C1 (as stated): in both profiles and for every tile size, a pixel strictly
\* inside the pixel range of tile (tx, ty) is mapped by PixelsToTile back to
\* (tx, ty).
C1_InteriorPixelMapsBack ==
  op = "PixelsToTile" =>
    \A tx \in Tiles, ty \in Tiles :
      (StrictlyInside(args[1], tx, this.tileSize)
        /\ StrictlyInside(args[2], ty, this.tileSize)) => ret = <<tx, ty>>

\* C1 (amended): in both profiles, on each axis, a pixel coordinate strictly
\* inside the pixel range of tile t is mapped by PixelsToTile back to t when
\* the boundaries t * tileSize and (t + 1) * tileSize are float64 values and
\* the quotient p / tileSize is not rounded to 0.
C1_InteriorPixelMapsBackExact ==
  op = "PixelsToTile" =>
    \A t \in Tiles : \A i \in 1..2 :
      (TileIsExact(t, this.tileSize) /\ StrictlyInside(args[i], t, this.tileSize)
        /\ NoUnderflow(args[i], this.tileSize)) => ret[i] = t

\* A pixel one float64 above the boundary of a tile tx >= 1, in a row ty >= 1,
\* was mapped to (tx, ty).
C1_Witness ==
  /\ op = "PixelsToTile"
  /\ \E tx \in 1..MaxTile, ty \in 1..MaxTile :
       /\ TileIsExact(tx, this.tileSize) /\ TileIsExact(ty, this.tileSize)
       /\ args[1] = FNextUp(TileEdge(tx, this.tileSize))
       /\ StrictlyInside(args[2], ty, this.tileSize)
       /\ ret = <<tx, ty>>

\* The zoom levels at which pixelSize exceeds the resolution, and those whose
\* resolution is still at least pixelSize.
Crossings(p, pixelSize) ==
  {i \in 0..(ZoomScanEnd - 1) : FGt(pixelSize, Mercator_Resolution(p, i))}
Fitting(p, pixelSize) ==
  {i \in 0..(ZoomScanEnd - 1) : FGe(Mercator_Resolution(p, i), pixelSize)}

SetMin(S) == CHOOSE x \in S : \A y \in S : x <= y
SetMax(S) == CHOOSE x \in S : \A y \in S : x >= y

\* C2 (as stated): ZoomForPixelSize returns the greatest zoom in 0..29 whose
\* resolution is still at least pixelSize, for every pixelSize > 0.
C2_ReturnsMaximalZoom ==
  (op = "ZoomForPixelSize" /\ FGt(args[1], FZero)
     /\ Fitting(this, args[1]) # {})
    => ret = <<SetMax(Fitting(this, args[1]))>>

\* C3: in both profiles and for every tested zoom, Resolution(zoom + 1) is
\* exactly Resolution(zoom) / 2 and Resolution(zoom) * 2^zoom is exactly
\* Resolution(0), which is 180/256 = 45/64 (Geodetic) and initialResolution
\* = 2 * pi * 6378137 / tileSize (Mercator).
ResolutionOf(p, zoom) ==
  IF p.kind = "Mercator" THEN Mercator_Resolution(p, zoom)
  ELSE Geodetic_Resolution(p, zoom)

C3_ResolutionHalves ==
  op = "Resolution" =>
    /\ FEq(ResolutionOf(this, args[1] + 1), FDiv(ret[1], FInt(2)))
    /\ FEq(FMul(ret[1], FInt(P2[args[1]])), ResolutionOf(this, 0))
    /\ this.kind = "Geodetic" => ResolutionOf(this, 0) = FDyadic(45, -6)
    /\ this.kind = "Mercator" =>
         /\ ResolutionOf(this, 0) = this.initialResolution
         /\ this.initialResolution = FDiv(EarthCircumference, this.tileSize)

\* Resolution was asked for the last tested zoom of a Mercator profile and is
\* initialResolution with its exponent lowered by that zoom.
C3_Witness ==
  /\ op = "Resolution" /\ this.kind = "Mercator"
  /\ args[1] = TestedZoomEnd - 1
  /\ ret[1] = [this.initialResolution EXCEPT !.exp = @ - (TestedZoomEnd - 1)]

\* C4 (as stated): PixelsToRaster returns (px, tileSize * 2^zoom - py) for
\* every zoom >= 0 and every tile size > 0.
C4_RasterFlipsAtMapSize ==
  op = "PixelsToRaster" =>
    ret = <<args[1], FSub(FMul(this.tileSize, FPow2(args[3])), args[2])>>

\* C5 (as stated): the bounds Mercator TileBounds returns have minx < maxx
\* and miny < maxy for every tile index >= 0 and every zoom >= 0.
C5_TileBoundsOrdered ==
  (op = "TileBounds" /\ this.kind = "Mercator") =>
    FLt(ret[1], ret[3]) /\ FLt(ret[2], ret[4])

\* The tile (tx, ty) belongs to the pyramid: zoom is one of 0..29 and
\* 0 <= tx, ty <= 2^zoom - 1.
InPyramid(tx, ty, zoom) ==
  /\ zoom >= 0 /\ zoom < ZoomScanEnd
  /\ FLe(FZero, tx) /\ FLt(tx, FInt(P2[Min(zoom, ZoomScanEnd)]))
  /\ FLe(FZero, ty) /\ FLt(ty, FInt(P2[Min(zoom, ZoomScanEnd)]))

\* C5 (amended): the bounds Mercator TileBounds returns are the images under
\* PixelsToMeters of the pixel corners of the tile, for every tile and zoom;
\* minx < maxx and miny < maxy for the tiles of the pyramid, zoom in 0..29
\* and 0 <= tx, ty <= 2^zoom - 1.
C5_TileBoundsOrderedInPyramid ==
  (op = "TileBounds" /\ this.kind = "Mercator") =>
    /\ InPyramid(args[1], args[2], args[3]) =>
         FLt(ret[1], ret[3]) /\ FLt(ret[2], ret[4])
    /\ <<ret[1], ret[2]>> =
         Mercator_PixelsToMeters(this, FMul(args[1], this.tileSize),
                                 FMul(args[2], this.tileSize), args[3])
    /\ <<ret[3], ret[4]>> =
         Mercator_PixelsToMeters(this, FMul(FAdd(args[1], FInt(1)), this.tileSize),
                                 FMul(FAdd(args[2], FInt(1)), this.tileSize), args[3])

\* The bounds of the last tile of the deepest zoom, where a tile is narrowest
\* and the coordinates are largest, were taken and are ordered.
C5_Witness ==
  /\ op = "TileBounds" /\ this.kind = "Mercator"
  /\ args = <<FInt(P2[ZoomScanEnd - 1] - 1), FInt(1), ZoomScanEnd - 1>>
  /\ InPyramid(args[1], args[2], args[3])
  /\ FLt(ret[1], ret[3]) /\ FLt(ret[2], ret[4])

\* C6: Geodetic LatLonToPixels scales its first argument from [-180, 180] onto
\* px in [0, 512 * 2^zoom] and its second from [-90, 90] onto py in
\* [0, 256 * 2^zoom], linearly: 45 degrees are 64 * 2^zoom pixels on either
\* axis; and (51.5287718, -0.2416819) at zoom 2 is within 0.001 of
\* (1317.141, 510.625).
TestPx == FBits(0, 5395009, 575525618, -42)
TestPy == FBits(0, 8366080, 0, -44)
TestEps == FBits(0, 4294967, 317827580, -62)

C6_LatLonToPixelsScales ==
  op = "LatLonToPixels" =>
    /\ FLe(FZero, ret[1]) /\ FLe(ret[1], FDyadic(512, args[3]))
    /\ FLe(FZero, ret[2]) /\ FLe(ret[2], FDyadic(256, args[3]))
    /\ \A k \in 0..8 : args[1] = FInt(45 * k - 180) => ret[1] = FDyadic(64 * k, args[3])
    /\ \A k \in 0..4 : args[2] = FInt(45 * k - 90) => ret[2] = FDyadic(64 * k, args[3])
    /\ (args = <<TestLat, TestLon, 2>>) =>
         /\ FLt(FAbs(FSub(ret[1], TestPx)), TestEps)
         /\ FLt(FAbs(FSub(ret[2], TestPy)), TestEps)

\* The point of the test was converted at zoom 2.
C6_Witness ==
  /\ op = "LatLonToPixels"
  /\ args = <<TestLat, TestLon, 2>>
  /\ FLt(FAbs(FSub(ret[1], TestPx)), TestEps)
  /\ FLt(FAbs(FSub(ret[2], TestPy)), TestEps)

\* C7: a Geodetic profile of any other tile size returns the same Resolution,
\* LatLonToPixels and TileBounds for the same arguments, and a different
\* PixelsToTile for a pixel coordinate between the two tile sizes.
C7_GeodeticTileSizeIndependence ==
  this.kind = "Geodetic" =>
    \A t \in GeodeticTileSizes :
      /\ op = "Resolution" =>
           ret = <<Geodetic_Resolution(NewGlobalGeodetic(t), args[1])>>
      /\ op = "LatLonToPixels" =>
           ret = Geodetic_LatLonToPixels(NewGlobalGeodetic(t), args[1], args[2], args[3])
      /\ op = "TileBounds" =>
           ret = Geodetic_TileBounds(NewGlobalGeodetic(t), args[1], args[2], args[3])
      /\ (op = "PixelsToTile" /\ FLt(FInt(t), args[1]) /\ FLe(args[1], this.tileSize)) =>
           /\ ret[1] = 0
           /\ Geodetic_PixelsToTile(NewGlobalGeodetic(t), args[1], args[2])[1] >= 1

\* A profile whose tile size is not 256 returned, for tile (1, 1) at zoom 0,
\* the bounds (0, 90, 180, 270) of 256-pixel tiles.
C7_Witness ==
  /\ this.kind = "Geodetic" /\ this.tileSize # FInt(256)
  /\ op = "TileBounds"
  /\ args = <<FInt(1), FInt(1), 0>>
  /\ ret = <<FZero, FInt(90), FInt(180), FInt(270)>>

\* C8: ZoomForPixelSize returns -1 when pixelSize exceeds Resolution(0), 0 when
\* the first zoom whose resolution it exceeds is one of 1..29, and leaves the
\* loop and the function without a return value when it exceeds none.
C8_ZoomForPixelSizeLiteral ==
  op = "ZoomForPixelSize" =>
    /\ Crossings(this, args[1]) = {} => ret = <<>>
    /\ Crossings(this, args[1]) # {} =>
         /\ SetMin(Crossings(this, args[1])) = 0 => ret = <<-1>>
         /\ SetMin(Crossings(this, args[1])) >= 1 => ret = <<0>>
         /\ ret \in {<<-1>>, <<0>>}

\* The first crossing was beyond zoom 1 and 0 was returned.
C8_Witness ==
  /\ op = "ZoomForPixelSize"
  /\ Crossings(this, args[1]) # {}
  /\ SetMin(Crossings(this, args[1])) > 1
  /\ ret = <<0>>

\* C9 (as stated): PixelsToTile maps every pixel coordinate of
\* [tx * tileSize, (tx + 1) * tileSize) to tx, the lower boundary included.
C9_HalfOpenFromBelow ==
  op = "PixelsToTile" =>
    \A tx \in Tiles : \A i \in 1..2 :
      (EdgeCmp(tx, this.tileSize, args[i]) <= 0
        /\ EdgeCmp(tx + 1, this.tileSize, args[i]) > 0) => ret[i] = tx

\* C9 (amended): where the boundaries of tile tx are float64 values,
\* PixelsToTile maps every pixel coordinate of
\* (tx * tileSize, (tx + 1) * tileSize] whose quotient by tileSize is not
\* rounded to 0 to tx: the upper boundary belongs to the tile and the lower
\* boundary tx * tileSize to tile tx - 1.
C9_HalfOpenFromAbove ==
  op = "PixelsToTile" =>
    \A tx \in Tiles : \A i \in 1..2 :
      TileIsExact(tx, this.tileSize) =>
        /\ (EdgeCmp(tx, this.tileSize, args[i]) < 0
             /\ EdgeCmp(tx + 1, this.tileSize, args[i]) >= 0
             /\ NoUnderflow(args[i], this.tileSize)) => ret[i] = tx
        /\ EdgeCmp(tx, this.tileSize, args[i]) = 0 => ret[i] = tx - 1

\* A pixel coordinate on the boundary between tiles tx - 1 and tx, tx >= 1,
\* was mapped to tx - 1.
C9_Witness ==
  /\ op = "PixelsToTile"
  /\ \E tx \in 1..MaxTile :
       /\ TileIsExact(tx, this.tileSize)
       /\ args[1] = TileEdge(tx, this.tileSize) /\ ret[1] = tx - 1

\* The projected coordinates of the claim: -originShift < m <= originShift.
InWorld(m, p) == FLt(FNeg(p.originShift), m) /\ FLe(m, p.originShift)

BoundsOfResult == Mercator_TileBounds(this, FInt(ret[1]), FInt(ret[2]), args[3])

\* C10 (as stated): the bounds of the tile MetersToTile returns contain the
\* point, minx < mx <= maxx and miny < my <= maxy, and the tile lies in the
\* pyramid, 0 <= tx, ty <= 2^zoom - 1.
C10_TileContainsPoint ==
  (op = "MetersToTile" /\ InWorld(args[1], this) /\ InWorld(args[2], this)) =>
    /\ FLt(BoundsOfResult[1], args[1]) /\ FLe(args[1], BoundsOfResult[3])
    /\ FLt(BoundsOfResult[2], args[2]) /\ FLe(args[2], BoundsOfResult[4])
    /\ 0 <= ret[1] /\ ret[1] <= P2[args[3]] - 1
    /\ 0 <= ret[2] /\ ret[2] <= P2[args[3]] - 1

\* One part in 2^24 of a metre: more than the rounding of the bounds, far
\* less than the width of a tile at the deepest zoom.
MeterEps == FDyadic(1, -24)

IsPowerOfTwo(a) == a.cls = "fin" /\ BBitLen(BSub(a.man, <<1>>)) < MantBits

PixelsOfPoint == Mercator_MetersToPixels(this, args[1], args[2], args[3])

\* C10 (amended): for zoom in 0..29 the pixel MetersToPixels gives for the
\* point lies in the pixel range (t * tileSize, (t + 1) * tileSize] of the
\* tile returned, on both axes, when the boundaries of that tile are float64
\* values; the bounds of that tile contain the point up to the rounding of
\* float64, minx - eps < mx < maxx + eps and the same for y, eps = 2^-24 m;
\* and 0 <= tx, ty <= 2^zoom - 1 when tileSize is a power of two,
\* 0 <= tx, ty <= 2^zoom for any tile size.
C10_TileContainsPointRounded ==
  (op = "MetersToTile" /\ InWorld(args[1], this) /\ InWorld(args[2], this)) =>
    /\ \A i \in 1..2 :
         /\ 0 <= ret[i] /\ ret[i] <= P2[args[3]]
         /\ IsPowerOfTwo(this.tileSize) => ret[i] <= P2[args[3]] - 1
         /\ TileIsExact(ret[i], this.tileSize) =>
              /\ EdgeCmp(ret[i], this.tileSize, PixelsOfPoint[i]) < 0
              /\ EdgeCmp(ret[i] + 1, this.tileSize, PixelsOfPoint[i]) >= 0
         /\ FLt(FSub(BoundsOfResult[i], MeterEps), args[i])
         /\ FLt(args[i], FAdd(BoundsOfResult[i + 2], MeterEps))

\* The point (originShift / 2, originShift / 2) at zoom 2 and tile size 256 was
\* given tile (2, 2), whose bounds end below it: within eps, but not at it.
C10_Witness ==
  /\ op = "MetersToTile" /\ this.tileSize = FInt(256)
  /\ args = <<FDiv(this.originShift, FInt(2)), FDiv(this.originShift, FInt(2)), 2>>
  /\ ret = <<2, 2>>
  /\ FLt(BoundsOfResult[3], args[1])
  /\ FLt(args[1], FAdd(BoundsOfResult[3], MeterEps))

====
